---- MODULE Spec2Model ----
(***************************************************************************)
(* Work-schedule generator (src/scd3.py, class WorkScheduleGenerator):     *)
(* the availability oracle, the daily lab assignment and the workload      *)
(* balancer.                                                               *)
(*                                                                         *)
(* Units.  The program works with hours as floats whose values are all     *)
(* multiples of 0.5.  The model counts HALF-HOURS as integers: 9h is 18,   *)
(* 13h30 is 27, a 2.5 h shift is 5, and so on.  Means and variances are    *)
(* compared after cross-multiplication, so no rounding takes place.        *)
(*                                                                         *)
(* Dates are day numbers; day 0 is a Monday, so date.weekday() is d % 7.   *)
(* Date strings '%Y-%m-%d' compare like the dates themselves.              *)
(***************************************************************************)
EXTENDS Integers, Sequences, FiniteSets, TLC

VARIABLES
    staff_data,         \* self.staff_data: staff name -> availability info
    start_date,         \* first date of the range given to generate_schedule
    end_date,           \* last date of the range (inclusive)
    current_date,       \* loop variable of _generate_initial_schedule
    schedule,           \* list of day entries [date, assignments]
    staff_work_hours,   \* self.staff_work_hours: the workload ledger
    pc,                 \* position inside generate_schedule
    iteration,          \* loop variable of _balance_workload
    bal,                \* locals of the running balancer round
    last_credits,       \* ledger credits made by the last step (history)
    last_day,           \* stages of the last _assign_daily_labs call (history)
    oq,                 \* oracle harness: the inputs of one oracle call
    oa                  \* oracle harness: the value the call returned

vars == <<staff_data, start_date, end_date, current_date, schedule,
          staff_work_hours, pc, iteration, bal, last_credits, last_day, oq, oa>>

(***************************************************************************)
(* Bounds of the model.                                                    *)
(***************************************************************************)
NumStaff == 5        \* size of the roster
NumActive == 4       \* Spec, SpecCalendar: only the first NumActive staff declare windows
MaxSpan == 1         \* the date range starts at most this many days before LastDate
MaxWindows == 2      \* longest window list given to the overlap oracle
MaxPeriods == 2      \* most date-range overrides of one staff info

(***************************************************************************)
(* Program constants (half-hour units, see above).                         *)
(***************************************************************************)
MorningStart == 18
MorningEnd == 24
Afternoon1Start == 27
Afternoon1End == 32
Afternoon2Start == 32
Afternoon2End == 37
MorningCap == 6
AfternoonCap == 5
max_iterations == 5
improvement_threshold == 2   \* 0.5 h^2 = 2 (half-hour)^2
overloaded_threshold == 4    \* avg_hours + 2
underloaded_threshold == 4   \* avg_hours - 2
occupant_threshold == 2      \* avg_hours + 1
replacement_margin == 2      \* current_staff_hours - 1

Shifts == <<"morning", "afternoon1", "afternoon2">>
Labs == <<"lab01", "lab02", "lab03">>
ShiftSet == {Shifts[i] : i \in 1..3}
LabSet == {Labs[i] : i \in 1..3}
NoStaff == ""

Min(a, b) == IF a < b THEN a ELSE b
Max(a, b) == IF a > b THEN a ELSE b

Weekday(date) == date % 7

(***************************************************************************)
(* _check_shift_overlap                                                    *)
(***************************************************************************)
ShiftBounds(shift_type) ==
    IF shift_type = "morning" THEN <<MorningStart, MorningEnd>>
    ELSE IF shift_type = "afternoon1" THEN <<Afternoon1Start, Afternoon1End>>
    ELSE <<Afternoon2Start, Afternoon2End>>

\* variant: every window counts, also one that misses the shift
RECURSIVE OverlapLoopUnclipped(_, _, _, _)
OverlapLoopUnclipped(time_ranges, i, shift_type, total_overlap) ==
    IF i > Len(time_ranges) THEN total_overlap
    ELSE OverlapLoopUnclipped(time_ranges, i + 1, shift_type,
             total_overlap + (Min(time_ranges[i][2], ShiftBounds(shift_type)[2])
                              - Max(time_ranges[i][1], ShiftBounds(shift_type)[1])))

RECURSIVE OverlapLoop(_, _, _, _)
OverlapLoop(time_ranges, i, shift_type, total_overlap) ==
    IF i > Len(time_ranges) THEN total_overlap
    ELSE LET overlap_start == Max(time_ranges[i][1], ShiftBounds(shift_type)[1])
             overlap_end == Min(time_ranges[i][2], ShiftBounds(shift_type)[2])
         IN OverlapLoop(time_ranges, i + 1, shift_type,
                        IF overlap_start < overlap_end
                        THEN total_overlap + (overlap_end - overlap_start)
                        ELSE total_overlap)

check_shift_overlap(time_ranges, shift_type) ==
    LET total_overlap == OverlapLoop(time_ranges, 1, shift_type, 0)
    IN <<total_overlap > 0, total_overlap>>

(***************************************************************************)
(* get_staff_availability.  A staff info is a record; the optional keys    *)
(* 'excluded_dates', 'periods' and 'default' of the Python dict are the    *)
(* flags has_excluded, has_periods, has_default. A weekday table is a      *)
(* function from some weekday numbers (2..6) to window lists.              *)
(***************************************************************************)
RECURSIVE PeriodsLoop(_, _, _, _)
PeriodsLoop(periods, i, date, shift_type) ==
    IF i > Len(periods) THEN <<FALSE, 0>>
    ELSE IF periods[i].start_date <= date /\ date <= periods[i].end_date
            /\ (Weekday(date) + 2) \in DOMAIN periods[i].schedule
         THEN check_shift_overlap(periods[i].schedule[Weekday(date) + 2], shift_type)
         ELSE PeriodsLoop(periods, i + 1, date, shift_type)

StaffAvailability(staff_info, date, shift_type) ==
    LET weekday == Weekday(date) + 2
    IN IF staff_info.has_excluded /\ date \in staff_info.excluded_dates
       THEN <<FALSE, 0>>
       ELSE IF staff_info.has_periods
       THEN PeriodsLoop(staff_info.periods, 1, date, shift_type)
       ELSE IF staff_info.has_default /\ weekday \in DOMAIN staff_info.default
       THEN check_shift_overlap(staff_info.default[weekday], shift_type)
       ELSE <<FALSE, 0>>

get_staff_availability(staff_name, date, shift_type) ==
    StaffAvailability(staff_data[staff_name], date, shift_type)

(***************************************************************************)
(* The roster.  self.staff_data is a dict: its keys iterate in insertion   *)
(* order (the order of the rows of the input file), here StaffOrder.       *)
(***************************************************************************)
StaffNames == <<"A", "B", "C", "D", "E", "F">>
StaffOrder == SubSeq(StaffNames, 1, NumStaff)
Staff == {StaffOrder[i] : i \in 1..NumStaff}

Range(seq) == {seq[i] : i \in 1..Len(seq)}

(***************************************************************************)
(* self.staff_work_hours is a defaultdict(float): reading a missing key    *)
(* inserts it with 0.0, and the keys iterate in insertion order.  A ledger *)
(* is [keys: the inserted names in order, hrs: name -> half-hours].        *)
(***************************************************************************)
EmptyLedger == [keys |-> <<>>, hrs |-> [s \in Staff |-> 0]]

LedgerTouch(ledger, staff) ==
    IF staff \in Range(ledger.keys) THEN ledger
    ELSE [ledger EXCEPT !.keys = Append(@, staff)]

\* variant: an amount below zero is not subtracted
LedgerAddCreditsOnly(ledger, staff, hours) ==
    IF hours < 0 THEN LedgerTouch(ledger, staff)
    ELSE [LedgerTouch(ledger, staff) EXCEPT !.hrs[staff] = @ + hours]

LedgerAdd(ledger, staff, hours) ==
    [LedgerTouch(ledger, staff) EXCEPT !.hrs[staff] = @ + hours]

RECURSIVE LedgerTouchAll(_, _, _)
LedgerTouchAll(ledger, staff_list, i) ==
    IF i > Len(staff_list) THEN ledger
    ELSE LedgerTouchAll(LedgerTouch(ledger, staff_list[i]), staff_list, i + 1)

RECURSIVE SumHours(_, _)
SumHours(ledger, i) ==
    IF i > Len(ledger.keys) THEN 0
    ELSE ledger.hrs[ledger.keys[i]] + SumHours(ledger, i + 1)

RECURSIVE SumSquares(_, _)
SumSquares(ledger, i) ==
    IF i > Len(ledger.keys) THEN 0
    ELSE ledger.hrs[ledger.keys[i]] * ledger.hrs[ledger.keys[i]] + SumSquares(ledger, i + 1)

(***************************************************************************)
(* list.sort(key=...) is stable.  The lists sorted by the program hold     *)
(* pairs <<staff, hours>>; SortAscending is sort(key=hours),               *)
(* SortDescending is sort(key=hours, reverse=True), which also keeps the   *)
(* original order of equal keys.                                           *)
(***************************************************************************)
RECURSIVE InsertAscending(_, _, _)
InsertAscending(sorted, x, i) ==
    IF i > Len(sorted) THEN Append(sorted, x)
    ELSE IF sorted[i][2] > x[2]
         THEN SubSeq(sorted, 1, i - 1) \o <<x>> \o SubSeq(sorted, i, Len(sorted))
         ELSE InsertAscending(sorted, x, i + 1)

RECURSIVE SortAscending(_, _, _)
SortAscending(list, i, sorted) ==
    IF i > Len(list) THEN sorted
    ELSE SortAscending(list, i + 1, InsertAscending(sorted, list[i], 1))

RECURSIVE InsertDescending(_, _, _)
InsertDescending(sorted, x, i) ==
    IF i > Len(sorted) THEN Append(sorted, x)
    ELSE IF sorted[i][2] < x[2]
         THEN SubSeq(sorted, 1, i - 1) \o <<x>> \o SubSeq(sorted, i, Len(sorted))
         ELSE InsertDescending(sorted, x, i + 1)

RECURSIVE SortDescending(_, _, _)
SortDescending(list, i, sorted) ==
    IF i > Len(list) THEN sorted
    ELSE SortDescending(list, i + 1, InsertDescending(sorted, list[i], 1))

ShiftCap(shift_type) == IF shift_type = "morning" THEN MorningCap ELSE AfternoonCap

(***************************************************************************)
(* _get_available_staff: the staff who can work, in staff_data order.      *)
(***************************************************************************)
\* variant: the can_work test is dropped
get_available_staff_unfiltered(date, shift_type) == StaffOrder

get_available_staff(date, shift_type) ==
    SelectSeq(StaffOrder, LAMBDA staff_name :
                  get_staff_availability(staff_name, date, shift_type)[1])

(***************************************************************************)
(* _assign_daily_labs.  The state of one call is the record                *)
(*   [assignments, assigned_staff, ledger, credits]                        *)
(* where credits is the history of the amounts added to the ledger.        *)
(* list(<set>) iterates a Python set of strings: the order is not fixed    *)
(* by the program (string hashes are salted per process), so every order   *)
(* of the set is possible.                                                 *)
(***************************************************************************)
EmptyAssignments == [shift \in ShiftSet |-> [lab \in LabSet |-> NoStaff]]

Orders(set) ==
    {order \in [1..Cardinality(set) -> set] :
        \A i, j \in 1..Cardinality(set) : order[i] = order[j] => i = j}

RosterOrder(set) == {SelectSeq(StaffOrder, LAMBDA staff : staff \in set)}

IterOrders(in_roster_order, set) == IF in_roster_order THEN RosterOrder(set) ELSE Orders(set)

RemainingLabs(assignments, shift_type) ==
    SelectSeq(Labs, LAMBDA lab : assignments[shift_type][lab] = NoStaff)

\* one iteration body of a tier loop: write staff into lab for the tier's
\* shifts, mark assigned, add sum of min(hours, cap) to the ledger
RECURSIVE PlaceInShifts(_, _, _, _, _)
PlaceInShifts(assignments, staff, lab, tier_shifts, i) ==
    IF i > Len(tier_shifts) THEN assignments
    ELSE PlaceInShifts([assignments EXCEPT ![tier_shifts[i]][lab] = staff],
                       staff, lab, tier_shifts, i + 1)

TierCredit(staff, date, shift_type) ==
    Min(get_staff_availability(staff, date, shift_type)[2], ShiftCap(shift_type))

RECURSIVE TierHours(_, _, _, _)
TierHours(staff, date, tier_shifts, i) ==
    IF i > Len(tier_shifts) THEN 0
    ELSE TierCredit(staff, date, tier_shifts[i]) + TierHours(staff, date, tier_shifts, i + 1)

TierCreditLog(staff, date, tier_shifts) ==
    {[staff |-> staff, date |-> date, shift |-> tier_shifts[i],
      amount |-> TierCredit(staff, date, tier_shifts[i])] : i \in 1..Len(tier_shifts)}

\* variant: the staff placed by a tier are not marked as assigned for the day
RECURSIVE TierLoopNotMarked(_, _, _, _, _, _)
TierLoopNotMarked(st, date, order, labs, tier_shifts, i) ==
    IF i > Len(order) \/ i > Len(labs) THEN st
    ELSE TierLoopNotMarked(
           [assignments |-> PlaceInShifts(st.assignments, order[i], labs[i], tier_shifts, 1),
            assigned_staff |-> st.assigned_staff,
            ledger |-> LedgerAdd(st.ledger, order[i], TierHours(order[i], date, tier_shifts, 1)),
            credits |-> st.credits \cup TierCreditLog(order[i], date, tier_shifts)],
           date, order, labs, tier_shifts, i + 1)

RECURSIVE TierLoop(_, _, _, _, _, _)
TierLoop(st, date, order, labs, tier_shifts, i) ==
    IF i > Len(order) \/ i > Len(labs) THEN st
    ELSE TierLoop(
           [assignments |-> PlaceInShifts(st.assignments, order[i], labs[i], tier_shifts, 1),
            assigned_staff |-> st.assigned_staff \cup {order[i]},
            ledger |-> LedgerAdd(st.ledger, order[i], TierHours(order[i], date, tier_shifts, 1)),
            credits |-> st.credits \cup TierCreditLog(order[i], date, tier_shifts)],
           date, order, labs, tier_shifts, i + 1)

\* variant: Priority 1 leaves the afternoon2 slot unwritten
Priority1WithoutAfternoon2(st, date, order) ==
    TierLoop(st, date, order, Labs, <<"morning", "afternoon1">>, 1)

\* Priority 1: all day, labs lab01..lab03 for the first three of the list
Priority1(st, date, order) ==
    TierLoop(st, date, order, Labs, <<"morning", "afternoon1", "afternoon2">>, 1)

\* variant: Priority 2 writes the morning slot only
Priority2MorningOnly(st, date, order) ==
    TierLoop(st, date, order, RemainingLabs(st.assignments, "morning"), <<"morning">>, 1)

\* Priority 2: morning and afternoon1, labs still empty in the morning
Priority2(st, date, order) ==
    TierLoop(st, date, order, RemainingLabs(st.assignments, "morning"),
             <<"morning", "afternoon1">>, 1)

\* Priority 3: morning and afternoon2, labs still empty in the morning
Priority3(st, date, order) ==
    TierLoop(st, date, order, RemainingLabs(st.assignments, "morning"),
             <<"morning", "afternoon2">>, 1)

\* Priority 4: afternoon1 and afternoon2, labs still empty in afternoon1
Priority4(st, date, order) ==
    TierLoop(st, date, order, RemainingLabs(st.assignments, "afternoon1"),
             <<"afternoon1", "afternoon2">>, 1)

(***************************************************************************)
(* _fill_remaining_slots: per shift, the labs still empty go to the staff  *)
(* available for the shift and not yet assigned that day, least ledger     *)
(* hours first.  Evaluating the sort key reads staff_work_hours[x] and so  *)
(* inserts every candidate into the ledger.                                *)
(***************************************************************************)
WithHours(staff_list, ledger) ==
    [i \in 1..Len(staff_list) |-> <<staff_list[i], ledger.hrs[staff_list[i]]>>]

RECURSIVE FillLoop(_, _, _, _, _, _)
FillLoop(st, date, shift_type, remaining_labs, unassigned_staff, i) ==
    IF i > Len(remaining_labs) \/ i > Len(unassigned_staff) THEN st
    ELSE LET staff == unassigned_staff[i][1]
             hours == get_staff_availability(staff, date, shift_type)[2]
             credit == Min(hours, ShiftCap(shift_type))
         IN FillLoop(
              [assignments |-> [st.assignments EXCEPT ![shift_type][remaining_labs[i]] = staff],
               assigned_staff |-> st.assigned_staff \cup {staff},
               ledger |-> LedgerAdd(st.ledger, staff, credit),
               credits |-> st.credits \cup
                   {[staff |-> staff, date |-> date, shift |-> shift_type, amount |-> credit]}],
              date, shift_type, remaining_labs, unassigned_staff, i + 1)

\* variant: the candidates are taken in roster order, the sort (line 280) is dropped
FillShiftUnsorted(st, date, shift_type) ==
    LET remaining_labs == RemainingLabs(st.assignments, shift_type)
        unassigned_staff == SelectSeq(get_available_staff(date, shift_type),
                                      LAMBDA staff : staff \notin st.assigned_staff)
        touched == [st EXCEPT !.ledger = LedgerTouchAll(st.ledger, unassigned_staff, 1)]
    IN FillLoop(touched, date, shift_type, remaining_labs,
                WithHours(unassigned_staff, touched.ledger), 1)

FillShift(st, date, shift_type) ==
    LET remaining_labs == RemainingLabs(st.assignments, shift_type)
        unassigned_staff == SelectSeq(get_available_staff(date, shift_type),
                                      LAMBDA staff : staff \notin st.assigned_staff)
        touched == [st EXCEPT !.ledger = LedgerTouchAll(st.ledger, unassigned_staff, 1)]
        sorted == SortAscending(WithHours(unassigned_staff, touched.ledger), 1, <<>>)
    IN FillLoop(touched, date, shift_type, remaining_labs, sorted, 1)

fill_remaining_slots(st, date) ==
    FillShift(FillShift(FillShift(st, date, "morning"), date, "afternoon1"), date, "afternoon2")

(***************************************************************************)
(* _assign_daily_labs(date): the set of results the call can produce from  *)
(* the given ledger, one per choice of the iteration orders of the four    *)
(* candidate sets (every order, or the roster order only).                 *)
(***************************************************************************)
AvailableSet(date, shift_type) == Range(get_available_staff(date, shift_type))

all_day_staff(date) ==
    AvailableSet(date, "morning") \cap AvailableSet(date, "afternoon1")
        \cap AvailableSet(date, "afternoon2")
morning_afternoon1(date) == AvailableSet(date, "morning") \cap AvailableSet(date, "afternoon1")
morning_afternoon2(date) == AvailableSet(date, "morning") \cap AvailableSet(date, "afternoon2")
afternoon1_afternoon2(date) == AvailableSet(date, "afternoon1") \cap AvailableSet(date, "afternoon2")

DayStart(ledger) ==
    [assignments |-> EmptyAssignments, assigned_staff |-> {}, ledger |-> ledger, credits |-> {}]

assign_daily_labs(date, ledger, in_roster_order) ==
    UNION { UNION { UNION { { fill_remaining_slots(Priority4(s3, date, o4), date)
              : o4 \in IterOrders(in_roster_order, afternoon1_afternoon2(date) \ s3.assigned_staff) }
            : s3 \in { Priority3(s2, date, o3)
                       : o3 \in IterOrders(in_roster_order, morning_afternoon2(date) \ s2.assigned_staff) } }
          : s2 \in { Priority2(s1, date, o2)
                     : o2 \in IterOrders(in_roster_order, morning_afternoon1(date) \ s1.assigned_staff) } }
        : s1 \in { Priority1(DayStart(ledger), date, o1)
                   : o1 \in IterOrders(in_roster_order, all_day_staff(date)) } }

\* the same call with the state after each of its seven steps: the four
\* priority loops and the three passes of _fill_remaining_slots
DailyStages(date, ledger, in_roster_order) ==
    UNION { UNION { UNION {
        { [date |-> date, start |-> DayStart(ledger),
           priority1 |-> s1, priority2 |-> s2, priority3 |-> s3,
           priority4 |-> Priority4(s3, date, o4),
           fill_morning |-> FillShift(Priority4(s3, date, o4), date, "morning"),
           fill_afternoon1 |-> FillShift(FillShift(Priority4(s3, date, o4), date, "morning"),
                                         date, "afternoon1"),
           final |-> fill_remaining_slots(Priority4(s3, date, o4), date)]
          : o4 \in IterOrders(in_roster_order, afternoon1_afternoon2(date) \ s3.assigned_staff) }
        : s3 \in { Priority3(s2, date, o3)
                   : o3 \in IterOrders(in_roster_order, morning_afternoon2(date) \ s2.assigned_staff) } }
      : s2 \in { Priority2(s1, date, o2)
                 : o2 \in IterOrders(in_roster_order, morning_afternoon1(date) \ s1.assigned_staff) } }
    : s1 \in { Priority1(DayStart(ledger), date, o1)
               : o1 \in IterOrders(in_roster_order, all_day_staff(date)) } }

NoDay == [date |-> 0 - 1]

(***************************************************************************)
(* _would_create_conflict                                                  *)
(***************************************************************************)
staff_other_labs(assignments, staff, shift_type) ==
    {other_lab \in LabSet :
        \E other_shift \in ShiftSet \ {shift_type} :
            assignments[other_shift][other_lab] = staff}

\* variant: the same-shift check (lines 438-440) is dropped
would_create_conflict_no_shift_check(assignments, staff, shift_type, lab) ==
    /\ staff_other_labs(assignments, staff, shift_type) # {}
    /\ lab \notin staff_other_labs(assignments, staff, shift_type)
    /\ \E preferred_lab \in staff_other_labs(assignments, staff, shift_type) :
           assignments[shift_type][preferred_lab] = NoStaff

\* variant: the preference for the staff member's own lab (lines 453-457) is dropped
would_create_conflict_same_shift_only(assignments, staff, shift_type, lab) ==
    \E other_lab \in LabSet \ {lab} : assignments[shift_type][other_lab] = staff

would_create_conflict(assignments, staff, shift_type, lab) ==
    \/ \E other_lab \in LabSet \ {lab} : assignments[shift_type][other_lab] = staff
    \/ /\ staff_other_labs(assignments, staff, shift_type) # {}
       /\ lab \notin staff_other_labs(assignments, staff, shift_type)
       /\ \E preferred_lab \in staff_other_labs(assignments, staff, shift_type) :
              assignments[shift_type][preferred_lab] = NoStaff

(***************************************************************************)
(* _try_maintain_lab_consistency, on r = [assignments, ledger, credits].   *)
(* It changes self.staff_work_hours only, not the round's work_hours copy. *)
(***************************************************************************)
\* variant: the can_work test (lines 468-469) is dropped
RECURSIVE ConsistencyLoopAnyStaff(_, _, _, _, _, _)
ConsistencyLoopAnyStaff(r, date, lab, new_staff, old_staff, i) ==
    IF i > Len(Shifts) THEN r
    ELSE IF /\ r.assignments[Shifts[i]][lab] = old_staff
            /\ ~would_create_conflict(r.assignments, new_staff, Shifts[i], lab)
         THEN ConsistencyLoopAnyStaff(
                [assignments |-> [r.assignments EXCEPT ![Shifts[i]][lab] = new_staff],
                 ledger |-> LedgerAdd(LedgerAdd(r.ledger, old_staff, 0 - ShiftCap(Shifts[i])),
                                      new_staff, ShiftCap(Shifts[i])),
                 credits |-> r.credits \cup
                     {[staff |-> new_staff, date |-> date, shift |-> Shifts[i],
                       amount |-> ShiftCap(Shifts[i])]}],
                date, lab, new_staff, old_staff, i + 1)
         ELSE ConsistencyLoopAnyStaff(r, date, lab, new_staff, old_staff, i + 1)

\* variant: the occupant test (line 466) is dropped, every slot of the lab
\* that new_staff does not hold is taken, whoever holds it
RECURSIVE ConsistencyLoopAnySlot(_, _, _, _, _, _)
ConsistencyLoopAnySlot(r, date, lab, new_staff, old_staff, i) ==
    IF i > Len(Shifts) THEN r
    ELSE IF /\ r.assignments[Shifts[i]][lab] # new_staff
            /\ get_staff_availability(new_staff, date, Shifts[i])[1]
            /\ ~would_create_conflict(r.assignments, new_staff, Shifts[i], lab)
         THEN ConsistencyLoopAnySlot(
                [assignments |-> [r.assignments EXCEPT ![Shifts[i]][lab] = new_staff],
                 ledger |-> LedgerAdd(LedgerAdd(r.ledger, old_staff, 0 - ShiftCap(Shifts[i])),
                                      new_staff, ShiftCap(Shifts[i])),
                 credits |-> r.credits \cup
                     {[staff |-> new_staff, date |-> date, shift |-> Shifts[i],
                       amount |-> ShiftCap(Shifts[i])]}],
                date, lab, new_staff, old_staff, i + 1)
         ELSE ConsistencyLoopAnySlot(r, date, lab, new_staff, old_staff, i + 1)

RECURSIVE ConsistencyLoop(_, _, _, _, _, _)
ConsistencyLoop(r, date, lab, new_staff, old_staff, i) ==
    IF i > Len(Shifts) THEN r
    ELSE LET shift_type == Shifts[i]
             can_work == get_staff_availability(new_staff, date, shift_type)[1]
             shift_hours == ShiftCap(shift_type)
         IN IF /\ r.assignments[shift_type][lab] = old_staff
               /\ can_work
               /\ ~would_create_conflict(r.assignments, new_staff, shift_type, lab)
            THEN ConsistencyLoop(
                   [assignments |-> [r.assignments EXCEPT ![shift_type][lab] = new_staff],
                    ledger |-> LedgerAdd(LedgerAdd(r.ledger, old_staff, 0 - shift_hours),
                                         new_staff, shift_hours),
                    credits |-> r.credits \cup
                        {[staff |-> new_staff, date |-> date, shift |-> shift_type,
                          amount |-> shift_hours]}],
                   date, lab, new_staff, old_staff, i + 1)
            ELSE ConsistencyLoop(r, date, lab, new_staff, old_staff, i + 1)

try_maintain_lab_consistency(r, date, lab, new_staff, old_staff) ==
    ConsistencyLoop(r, date, lab, new_staff, old_staff, 1)

(***************************************************************************)
(* _reassign_shifts.  avg_hours is total / count, fixed for the round;     *)
(* "hours > avg_hours + m" is hours * count > total + m * count.           *)
(***************************************************************************)
\* variant: the margin above the mean is ignored
AboveAvgNoMargin(hours, margin, total, count) == hours * count > total

AboveAvg(hours, margin, total, count) == hours * count > total + margin * count
BelowAvg(hours, margin, total, count) == hours * count < total - margin * count

RECURSIVE ClassifyLoop(_, _, _, _, _)
ClassifyLoop(work_hours, total, count, i, lists) ==
    IF i > Len(work_hours.keys) THEN lists
    ELSE LET staff == work_hours.keys[i]
             hours == work_hours.hrs[staff]
         IN ClassifyLoop(work_hours, total, count, i + 1,
              IF AboveAvg(hours, overloaded_threshold, total, count)
              THEN [lists EXCEPT !.overloaded_staff = Append(@, <<staff, hours>>)]
              ELSE IF BelowAvg(hours, underloaded_threshold, total, count)
              THEN [lists EXCEPT !.underloaded_staff = Append(@, <<staff, hours>>)]
              ELSE lists)

Classify(work_hours) ==
    LET lists == ClassifyLoop(work_hours, SumHours(work_hours, 1), Len(work_hours.keys), 1,
                              [overloaded_staff |-> <<>>, underloaded_staff |-> <<>>])
    IN [overloaded_staff |-> SortDescending(lists.overloaded_staff, 1, <<>>),
        underloaded_staff |-> SortAscending(lists.underloaded_staff, 1, <<>>)]

\* the search for best_replacement; best is <<staff, hours>>, <<NoStaff, -1>>
\* standing for (None, inf)
RECURSIVE ReplacementLoop(_, _, _, _, _, _, _, _)
ReplacementLoop(assignments, underloaded_staff, date, shift_type, lab, current_staff_hours, i, best) ==
    IF i > Len(underloaded_staff) THEN best
    ELSE LET replacement_staff == underloaded_staff[i][1]
             replacement_hours == underloaded_staff[i][2]
             avail == get_staff_availability(replacement_staff, date, shift_type)
         IN ReplacementLoop(assignments, underloaded_staff, date, shift_type, lab,
                            current_staff_hours, i + 1,
              IF /\ avail[1]
                 /\ ~(avail[2] < ShiftCap(shift_type))
                 /\ (best[1] = NoStaff \/ replacement_hours < best[2])
                 /\ replacement_hours < current_staff_hours - replacement_margin
                 /\ ~would_create_conflict(assignments, replacement_staff, shift_type, lab)
              THEN <<replacement_staff, replacement_hours>>
              ELSE best)

best_replacement(assignments, underloaded_staff, date, shift_type, lab, current_staff_hours) ==
    ReplacementLoop(assignments, underloaded_staff, date, shift_type, lab,
                    current_staff_hours, 1, <<NoStaff, 0 - 1>>)[1]

\* the body of the innermost loop of _reassign_shifts for one (day, shift, lab),
\* on g = [schedule, ledger, b, credits] with b the round's locals
ReassignSlot(g, day, shift_type, lab) ==
    LET b == g.b
        date == g.schedule[day].date
        assignments == g.schedule[day].assignments
        current_staff == assignments[shift_type][lab]
        shift_hours == ShiftCap(shift_type)
        current_staff_hours == b.work_hours.hrs[current_staff]
        best == best_replacement(assignments, b.underloaded_staff, date, shift_type, lab,
                                 current_staff_hours)
    IN IF current_staff = NoStaff THEN g
       ELSE IF ~AboveAvg(current_staff_hours, occupant_threshold, b.total, b.count) THEN g
       ELSE IF best = NoStaff THEN g
       ELSE
         LET work_hours == LedgerAdd(LedgerAdd(b.work_hours, current_staff, 0 - shift_hours),
                                     best, shift_hours)
             ledger == LedgerAdd(LedgerAdd(g.ledger, current_staff, 0 - shift_hours),
                                 best, shift_hours)
             removed == SelectSeq(b.underloaded_staff, LAMBDA x : x[1] # best)
             underloaded == IF BelowAvg(work_hours.hrs[best], underloaded_threshold,
                                        b.total, b.count)
                            THEN Append(removed, <<best, work_hours.hrs[best]>>)
                            ELSE removed
             overloaded == IF work_hours.hrs[current_staff] * b.count
                                     < b.total + overloaded_threshold * b.count
                           THEN SelectSeq(b.overloaded_staff, LAMBDA x : x[1] # current_staff)
                           ELSE b.overloaded_staff
             r == try_maintain_lab_consistency(
                    [assignments |-> [assignments EXCEPT ![shift_type][lab] = best],
                     ledger |-> ledger,
                     credits |-> {[staff |-> best, date |-> date, shift |-> shift_type,
                                   amount |-> shift_hours]}],
                    date, lab, best, current_staff)
         IN [schedule |-> [g.schedule EXCEPT ![day].assignments = r.assignments],
             ledger |-> r.ledger,
             b |-> [b EXCEPT !.work_hours = work_hours,
                             !.underloaded_staff = underloaded,
                             !.overloaded_staff = overloaded,
                             !.improvements_made = TRUE],
             credits |-> g.credits \cup r.credits]

(***************************************************************************)
(* _balance_workload: the head of one iteration (lines 300-312 and the     *)
(* classification of _reassign_shifts) and its tail (lines 317-330).       *)
(* The population variance of a ledger is VarianceNum / count^2.           *)
(***************************************************************************)
VarianceNum(ledger) ==
    Len(ledger.keys) * SumSquares(ledger, 1) - SumHours(ledger, 1) * SumHours(ledger, 1)

NoBal == [work_hours |-> EmptyLedger, total |-> 0, count |-> 0, variance_before |-> 0,
          overloaded_staff |-> <<>>, underloaded_staff |-> <<>>,
          improvements_made |-> FALSE, day |-> 0, shift |-> 0, lab |-> 0]

RoundLocals(ledger) ==
    [work_hours |-> ledger,
     total |-> SumHours(ledger, 1),
     count |-> Len(ledger.keys),
     variance_before |-> VarianceNum(ledger),
     overloaded_staff |-> Classify(ledger).overloaded_staff,
     underloaded_staff |-> Classify(ledger).underloaded_staff,
     improvements_made |-> FALSE,
     day |-> 1, shift |-> 1, lab |-> 1]

\* the round ends at once: empty or one-entry ledger (break), or
\* _reassign_shifts returns False before scanning
RoundStopsAtHead(ledger) ==
    \/ Len(ledger.keys) <= 1
    \/ Classify(ledger).overloaded_staff = <<>>
    \/ Classify(ledger).underloaded_staff = <<>>

\* improvement = variance_before - variance_after, compared with the threshold
ImprovementBelow(b, ledger, threshold) ==
    LET n_before == b.count * b.count
        n_after == Len(ledger.keys) * Len(ledger.keys)
    IN b.variance_before * n_after - VarianceNum(ledger) * n_before
           < threshold * n_before * n_after

\* variant: the improvement threshold (lines 327-330) is not consulted
RoundStopsAtTailNoThreshold(b, ledger, iter) ==
    \/ ~b.improvements_made
    \/ iter + 1 >= max_iterations

\* the loop of _balance_workload stops after this round
RoundStopsAtTail(b, ledger, iter) ==
    \/ ~b.improvements_made
    \/ ImprovementBelow(b, ledger, improvement_threshold)
    \/ iter + 1 >= max_iterations

(***************************************************************************)
(* Inputs.  Every staff member declares the same window list for each      *)
(* weekday 2..6 (or no entry at all), as parse_staff_availability builds   *)
(* it: only the 'default' key, and a weekday entry only for a non-empty    *)
(* list.  Besides the three shift windows of the input file the lists      *)
(* hold windows that cover part of a shift.                                *)
(***************************************************************************)
LastDate == 7

WinMorning == <<MorningStart, MorningEnd>>
WinAfternoon1 == <<Afternoon1Start, Afternoon1End>>
WinAfternoon2 == <<Afternoon2Start, Afternoon2End>>
WinPartMorning == <<MorningStart, MorningStart + 2>>
WinPartAfternoon1 == <<Afternoon1Start, Afternoon1Start + 1>>

DayWindowLists ==
    { <<>>,
      <<WinMorning>>,
      <<WinMorning, WinAfternoon1>>,
      <<WinMorning, WinAfternoon2>>,
      <<WinAfternoon1, WinAfternoon2>>,
      <<WinMorning, WinAfternoon1, WinAfternoon2>>,
      <<WinMorning, WinPartAfternoon1, WinAfternoon2>>,
      <<WinPartMorning, WinAfternoon1>> }

WeeklyTable(time_ranges) ==
    IF time_ranges = <<>> THEN <<>> ELSE [weekday \in 2..6 |-> time_ranges]

DefaultOnly(table) ==
    [has_excluded |-> FALSE, excluded_dates |-> {},
     has_periods |-> FALSE, periods |-> <<>>,
     has_default |-> TRUE, default |-> table]

StaffInfos == {DefaultOnly(WeeklyTable(time_ranges)) : time_ranges \in DayWindowLists}

\* the rosters in which the first NumActive staff take their info from infos
\* and the others declare nothing
Rosters(infos) ==
    {[staff \in Staff |-> IF staff \in DOMAIN active THEN active[staff] ELSE DefaultOnly(<<>>)]
        : active \in [{StaffOrder[i] : i \in 1..NumActive} -> infos]}

NoQuery == [op |-> "none"]

Init ==
    /\ staff_data \in Rosters(StaffInfos)
    /\ end_date = LastDate
    /\ start_date \in (LastDate - MaxSpan)..LastDate
    /\ current_date = start_date
    /\ schedule = <<>>
    /\ staff_work_hours = EmptyLedger
    /\ pc = "generate"
    /\ iteration = 0
    /\ bal = NoBal
    /\ last_credits = {}
    /\ last_day = NoDay
    /\ oq = NoQuery
    /\ oa = NoQuery

(***************************************************************************)
(* _generate_initial_schedule: one pass of the while loop.                 *)
(***************************************************************************)
\* variant: the weekday test (line 147) is dropped
AssignDayAnyDate ==
    /\ pc = "generate"
    /\ current_date <= end_date
    /\ \E stages \in DailyStages(current_date, staff_work_hours, FALSE) :
          /\ schedule' = Append(schedule, [date |-> current_date,
                                           assignments |-> stages.final.assignments])
          /\ staff_work_hours' = stages.final.ledger
          /\ last_credits' = stages.final.credits
          /\ last_day' = stages
    /\ current_date' = current_date + 1
    /\ UNCHANGED <<staff_data, start_date, end_date, pc, iteration, bal, oq, oa>>

AssignDay ==
    /\ pc = "generate"
    /\ current_date <= end_date
    /\ Weekday(current_date) < 5
    /\ \E stages \in DailyStages(current_date, staff_work_hours, FALSE) :
          /\ schedule' = Append(schedule, [date |-> current_date,
                                           assignments |-> stages.final.assignments])
          /\ staff_work_hours' = stages.final.ledger
          /\ last_credits' = stages.final.credits
          /\ last_day' = stages
    /\ current_date' = current_date + 1
    /\ UNCHANGED <<staff_data, start_date, end_date, pc, iteration, bal, oq, oa>>

SkipWeekend ==
    /\ pc = "generate"
    /\ current_date <= end_date
    /\ ~(Weekday(current_date) < 5)
    /\ current_date' = current_date + 1
    /\ last_credits' = {}
    /\ last_day' = NoDay
    /\ UNCHANGED <<staff_data, start_date, end_date, schedule, staff_work_hours, pc,
                   iteration, bal, oq, oa>>

\* the while loop ends; generate_schedule calls _balance_workload
StartBalancing ==
    /\ pc = "generate"
    /\ current_date > end_date
    /\ pc' = "balance"
    /\ iteration' = 0
    /\ last_credits' = {}
    /\ last_day' = NoDay
    /\ UNCHANGED <<staff_data, start_date, end_date, current_date, schedule,
                   staff_work_hours, bal, oq, oa>>

(***************************************************************************)
(* _balance_workload / _reassign_shifts, one step per loop position.       *)
(***************************************************************************)
BeginRound ==
    /\ pc = "balance"
    /\ IF RoundStopsAtHead(staff_work_hours)
       THEN /\ pc' = "done"
            /\ bal' = NoBal
       ELSE /\ pc' = "scan"
            /\ bal' = RoundLocals(staff_work_hours)
    /\ last_credits' = {}
    /\ last_day' = NoDay
    /\ UNCHANGED <<staff_data, start_date, end_date, current_date, schedule,
                   staff_work_hours, iteration, oq, oa>>

ScanSlot ==
    /\ pc = "scan"
    /\ LET g == ReassignSlot([schedule |-> schedule, ledger |-> staff_work_hours,
                              b |-> bal, credits |-> {}],
                             bal.day, Shifts[bal.shift], Labs[bal.lab])
           last == bal.lab = Len(Labs) /\ bal.shift = Len(Shifts) /\ bal.day = Len(schedule)
       IN /\ schedule' = g.schedule
          /\ staff_work_hours' = g.ledger
          /\ last_credits' = g.credits
          /\ bal' = [g.b EXCEPT
                       !.lab = IF bal.lab = Len(Labs) THEN 1 ELSE bal.lab + 1,
                       !.shift = IF bal.lab < Len(Labs) THEN bal.shift
                                 ELSE IF bal.shift = Len(Shifts) THEN 1 ELSE bal.shift + 1,
                       !.day = IF bal.lab = Len(Labs) /\ bal.shift = Len(Shifts)
                               THEN bal.day + 1 ELSE bal.day]
          /\ pc' = IF last THEN "endround" ELSE "scan"
    /\ last_day' = NoDay
    /\ UNCHANGED <<staff_data, start_date, end_date, current_date, iteration, oq, oa>>

EndRound ==
    /\ pc = "endround"
    /\ pc' = IF RoundStopsAtTail(bal, staff_work_hours, iteration) THEN "done" ELSE "balance"
    /\ iteration' = IF ~bal.improvements_made
                       \/ ImprovementBelow(bal, staff_work_hours, improvement_threshold)
                    THEN iteration ELSE iteration + 1
    /\ last_credits' = {}
    /\ last_day' = NoDay
    /\ UNCHANGED <<staff_data, start_date, end_date, current_date, schedule,
                   staff_work_hours, bal, oq, oa>>

Next == AssignDay \/ SkipWeekend \/ StartBalancing \/ BeginRound \/ ScanSlot \/ EndRound

Spec == Init /\ [][Next]_vars

(***************************************************************************)
(* A whole run of generate_schedule as one value: the run in which every   *)
(* candidate set is iterated in roster order.  It is one of the runs of    *)
(* Spec (RosterOrder(set) is an element of Orders(set)) and is built from  *)
(* the same step operators as the actions.                                 *)
(***************************************************************************)
RECURSIVE RunInitial(_, _, _)
RunInitial(date, sched, ledger) ==
    IF date > end_date THEN [schedule |-> sched, ledger |-> ledger]
    ELSE IF Weekday(date) < 5
    THEN LET st == CHOOSE x \in assign_daily_labs(date, ledger, TRUE) : TRUE
         IN RunInitial(date + 1,
                       Append(sched, [date |-> date, assignments |-> st.assignments]),
                       st.ledger)
    ELSE RunInitial(date + 1, sched, ledger)

RECURSIVE RunScan(_, _, _, _)
RunScan(g, day, shift, lab) ==
    IF day > Len(g.schedule) THEN g
    ELSE IF shift > Len(Shifts) THEN RunScan(g, day + 1, 1, 1)
    ELSE IF lab > Len(Labs) THEN RunScan(g, day, shift + 1, 1)
    ELSE RunScan(ReassignSlot(g, day, Shifts[shift], Labs[lab]), day, shift, lab + 1)

RECURSIVE RunBalance(_, _, _)
RunBalance(sched, ledger, iter) ==
    IF RoundStopsAtHead(ledger) THEN [schedule |-> sched, ledger |-> ledger]
    ELSE LET g == RunScan([schedule |-> sched, ledger |-> ledger,
                           b |-> RoundLocals(ledger), credits |-> {}], 1, 1, 1)
         IN IF RoundStopsAtTail(g.b, g.ledger, iter)
            THEN [schedule |-> g.schedule, ledger |-> g.ledger]
            ELSE RunBalance(g.schedule, g.ledger, iter + 1)

RosterOrderRun ==
    LET initial == RunInitial(start_date, <<>>, EmptyLedger)
    IN RunBalance(initial.schedule, initial.ledger, 0)

(***************************************************************************)
(* Runs over several days.  SpecCalendar takes date ranges that start and  *)
(* end on any day between a Thursday and the Tuesday after it, and rosters *)
(* in which at most one staff member declares more than one shift, so that *)
(* no candidate set of a priority loop has more than one element.          *)
(***************************************************************************)
CalendarLast == 8    \* last day of the calendar window (a Tuesday)
CalendarSpan == 5    \* the window starts this many days earlier (a Thursday)

CalendarWindowLists ==
    { <<>>, <<WinMorning>>, <<WinAfternoon2>>, <<WinMorning, WinAfternoon1, WinAfternoon2>> }

CalendarRosters ==
    {roster \in Rosters({DefaultOnly(WeeklyTable(time_ranges))
                            : time_ranges \in CalendarWindowLists}) :
        Cardinality({staff \in Staff : roster[staff].has_default
                                         /\ 2 \in DOMAIN roster[staff].default
                                         /\ Len(roster[staff].default[2]) > 1}) <= 1}

InitCalendar ==
    /\ staff_data \in CalendarRosters
    /\ start_date \in (CalendarLast - CalendarSpan)..CalendarLast
    /\ end_date \in start_date..CalendarLast
    /\ current_date = start_date
    /\ schedule = <<>>
    /\ staff_work_hours = EmptyLedger
    /\ pc = "generate"
    /\ iteration = 0
    /\ bal = NoBal
    /\ last_credits = {}
    /\ last_day = NoDay
    /\ oq = NoQuery
    /\ oa = NoQuery

SpecCalendar == InitCalendar /\ [][Next]_vars

(***************************************************************************)
(* A crowded afternoon.  SpecCrowded runs Sunday to Tuesday with a         *)
(* roster in which everybody declares Afternoon1: the third staff member   *)
(* with the whole Morning, the others with the first hour of the Morning,  *)
(* except that the last two may declare Afternoon1 alone.                  *)
(***************************************************************************)
CrowdedWindowLists == { <<WinAfternoon1>>, <<WinPartMorning, WinAfternoon1>> }

CrowdedRosters ==
    {[staff \in Staff |->
         DefaultOnly(WeeklyTable(
             IF staff = StaffOrder[3] THEN <<WinMorning, WinAfternoon1>>
             ELSE IF staff = StaffOrder[NumStaff - 1] THEN fourth
             ELSE IF staff = StaffOrder[NumStaff] THEN fifth
             ELSE <<WinPartMorning, WinAfternoon1>>))]
        : fourth \in CrowdedWindowLists, fifth \in CrowdedWindowLists}

InitCrowded ==
    /\ staff_data \in CrowdedRosters
    /\ start_date = LastDate - 1
    /\ end_date = LastDate + 1
    /\ current_date = start_date
    /\ schedule = <<>>
    /\ staff_work_hours = EmptyLedger
    /\ pc = "generate"
    /\ iteration = 0
    /\ bal = NoBal
    /\ last_credits = {}
    /\ last_day = NoDay
    /\ oq = NoQuery
    /\ oa = NoQuery

SpecCrowded == InitCrowded /\ [][Next]_vars

(***************************************************************************)
(* Tables that change with the weekday.  SpecWeekdays runs Sunday to       *)
(* Wednesday with one roster: nobody declares Monday; on Tuesday one staff *)
(* member declares both afternoons, one the first hour of the Morning and  *)
(* Afternoon1, one the Morning, two the Morning and Afternoon2; on         *)
(* Wednesday the last four declare all three shifts, two of them only the  *)
(* first half hour of Afternoon1.                                          *)
(***************************************************************************)
TwoDayTable(tuesday, wednesday) ==
    [weekday \in {3, 4} |-> IF weekday = 3 THEN tuesday ELSE wednesday]

WeekdaysRoster ==
    [staff \in Staff |->
        IF staff = StaffOrder[1]
            THEN DefaultOnly([weekday \in {3} |-> <<WinAfternoon1, WinAfternoon2>>])
        ELSE IF staff = StaffOrder[2]
            THEN DefaultOnly(TwoDayTable(<<WinPartMorning, WinAfternoon1>>,
                                         <<WinMorning, WinPartAfternoon1, WinAfternoon2>>))
        ELSE IF staff = StaffOrder[3]
            THEN DefaultOnly(TwoDayTable(<<WinMorning, WinAfternoon2>>,
                                         <<WinMorning, WinAfternoon1, WinAfternoon2>>))
        ELSE IF staff = StaffOrder[4]
            THEN DefaultOnly(TwoDayTable(<<WinMorning>>,
                                         <<WinMorning, WinPartAfternoon1, WinAfternoon2>>))
        ELSE IF staff = StaffOrder[5]
            THEN DefaultOnly(TwoDayTable(<<WinMorning, WinAfternoon2>>,
                                         <<WinMorning, WinAfternoon1, WinAfternoon2>>))
        ELSE DefaultOnly(<<>>)]

InitWeekdays ==
    /\ staff_data = WeekdaysRoster
    /\ start_date = LastDate - 1
    /\ end_date = LastDate + 2
    /\ current_date = start_date
    /\ schedule = <<>>
    /\ staff_work_hours = EmptyLedger
    /\ pc = "generate"
    /\ iteration = 0
    /\ bal = NoBal
    /\ last_credits = {}
    /\ last_day = NoDay
    /\ oq = NoQuery
    /\ oa = NoQuery

SpecWeekdays == InitWeekdays /\ [][Next]_vars

(***************************************************************************)
(* Windows that cover part of every shift.  SpecPartial runs one Monday    *)
(* (with or without the Sunday before it) with rosters whose active staff  *)
(* declare all three shifts: in full, with the first half hour of          *)
(* Afternoon1 only, or with the first hour of the Morning and the first    *)
(* half hour of each afternoon shift.                                      *)
(***************************************************************************)
WinPartAfternoon2 == <<Afternoon2Start, Afternoon2Start + 1>>

PartialWindowLists ==
    { <<WinMorning, WinAfternoon1, WinAfternoon2>>,
      <<WinMorning, WinPartAfternoon1, WinAfternoon2>>,
      <<WinPartMorning, WinPartAfternoon1, WinPartAfternoon2>> }

InitPartial ==
    /\ staff_data \in Rosters({DefaultOnly(WeeklyTable(time_ranges))
                                  : time_ranges \in PartialWindowLists})
    /\ end_date = LastDate
    /\ start_date \in (LastDate - MaxSpan)..LastDate
    /\ current_date = start_date
    /\ schedule = <<>>
    /\ staff_work_hours = EmptyLedger
    /\ pc = "generate"
    /\ iteration = 0
    /\ bal = NoBal
    /\ last_credits = {}
    /\ last_day = NoDay
    /\ oq = NoQuery
    /\ oa = NoQuery

SpecPartial == InitPartial /\ [][Next]_vars

(***************************************************************************)
(* The availability oracle on its own: SpecOracle draws the arguments of   *)
(* one call of _check_shift_overlap or of get_staff_availability and       *)
(* applies the function.                                                   *)
(***************************************************************************)
SeqsUpTo(set, n) == UNION {[1..k -> set] : k \in 0..n}

\* times before, inside, between and after the three shifts
TimePoints == {16, 20, 26, 30, 32, 35, 38}
Windows == {w \in TimePoints \X TimePoints : w[1] <= w[2]}

OverlapQueries ==
    [op : {"overlap"}, time_ranges : SeqsUpTo(Windows, MaxWindows), shift_type : ShiftSet]

OracleDates == 0..2
OracleTables ==
    { (2 :> <<WinMorning>>),
      (2 :> <<WinAfternoon1>> @@ 3 :> <<WinMorning, WinAfternoon1>>) }
OraclePeriods ==
    [start_date : {0, 1}, end_date : {1}, schedule : OracleTables]
        \cup [start_date : {2}, end_date : {2}, schedule : {(2 :> <<WinMorning>>)}]

\* each optional key of the dict is absent or present
ExcludedOptions == {<<FALSE, {}>>, <<TRUE, {}>>, <<TRUE, {1}>>}
PeriodsOptions == {<<FALSE, <<>>>>} \cup ({TRUE} \X SeqsUpTo(OraclePeriods, MaxPeriods))
DefaultOptions == {<<FALSE, <<>>>>} \cup ({TRUE} \X OracleTables)

OracleInfos ==
    {[has_excluded |-> e[1], excluded_dates |-> e[2],
      has_periods |-> p[1], periods |-> p[2],
      has_default |-> d[1], default |-> d[2]]
        : e \in ExcludedOptions, p \in PeriodsOptions, d \in DefaultOptions}

AvailabilityQueries ==
    [op : {"availability"}, staff_info : OracleInfos, date : OracleDates,
     shift_type : ShiftSet]

InitOracle ==
    /\ staff_data = [staff \in Staff |-> DefaultOnly(<<>>)]
    /\ end_date = LastDate
    /\ start_date = LastDate
    /\ current_date = LastDate
    /\ schedule = <<>>
    /\ staff_work_hours = EmptyLedger
    /\ pc = "oracle"
    /\ iteration = 0
    /\ bal = NoBal
    /\ last_credits = {}
    /\ last_day = NoDay
    /\ oq \in OverlapQueries \cup AvailabilityQueries
    /\ oa = NoQuery

CallOverlap ==
    /\ pc = "oracle"
    /\ oq.op = "overlap"
    /\ oa = NoQuery
    /\ oa' = [op |-> "overlap",
              can_work |-> check_shift_overlap(oq.time_ranges, oq.shift_type)[1],
              hours |-> check_shift_overlap(oq.time_ranges, oq.shift_type)[2]]
    /\ UNCHANGED <<staff_data, start_date, end_date, current_date, schedule,
                   staff_work_hours, pc, iteration, bal, last_credits, last_day, oq>>

CallAvailability ==
    /\ pc = "oracle"
    /\ oq.op = "availability"
    /\ oa = NoQuery
    /\ oa' = [op |-> "availability",
              can_work |-> StaffAvailability(oq.staff_info, oq.date, oq.shift_type)[1],
              hours |-> StaffAvailability(oq.staff_info, oq.date, oq.shift_type)[2]]
    /\ UNCHANGED <<staff_data, start_date, end_date, current_date, schedule,
                   staff_work_hours, pc, iteration, bal, last_credits, last_day, oq>>

NextOracle == CallOverlap \/ CallAvailability

SpecOracle == InitOracle /\ [][NextOracle]_vars

(***************************************************************************)
(*                              PROPERTIES                                 *)
(***************************************************************************)
Occupant(day, shift_type, lab) == schedule[day].assignments[shift_type][lab]

DaySlots == (1..Len(schedule)) \X ShiftSet \X LabSet

\* the step just taken was a balancer swap followed by a continuity migration
SwapWithPropagation ==
    /\ pc \in {"scan", "endround"}
    /\ Cardinality(last_credits) >= 2

(***************************************************************************)
(* C1  Slot exclusivity: on every day of the schedule and in every shift,  *)
(* no staff member occupies more than one of the three lab slots; this     *)
(* holds after the daily assignment and after every balancer step.         *)
(***************************************************************************)
SlotExclusivity ==
    \A day \in 1..Len(schedule) : \A shift_type \in ShiftSet : \A lab1, lab2 \in LabSet :
        (lab1 # lab2 /\ Occupant(day, shift_type, lab1) # NoStaff)
            => Occupant(day, shift_type, lab1) # Occupant(day, shift_type, lab2)

\* a swap and a migration have just happened while all three labs of the
\* shifts concerned are occupied
WitnessSlotExclusivity ==
    /\ SwapWithPropagation
    /\ \E c \in last_credits : \A lab \in LabSet :
           \E day \in 1..Len(schedule) :
               schedule[day].date = c.date /\ Occupant(day, c.shift, lab) # NoStaff

(***************************************************************************)
(* C2  Availability faithfulness: the occupant of every occupied slot can  *)
(* work that shift on that date (get_staff_availability gives canWork).    *)
(***************************************************************************)
AvailabilityFaithful ==
    \A slot \in DaySlots :
        Occupant(slot[1], slot[2], slot[3]) # NoStaff
            => get_staff_availability(Occupant(slot[1], slot[2], slot[3]),
                                      schedule[slot[1]].date, slot[2])[1]

\* the balancer has just migrated a shift to a staff member whose windows
\* cover only part of that shift
WitnessAvailabilityFaithful ==
    /\ SwapWithPropagation
    /\ \E c \in last_credits :
           /\ get_staff_availability(c.staff, c.date, c.shift)[2] < ShiftCap(c.shift)
           /\ \E slot \in DaySlots :
                  /\ schedule[slot[1]].date = c.date /\ slot[2] = c.shift
                  /\ Occupant(slot[1], slot[2], slot[3]) = c.staff

(***************************************************************************)
(* C3  Balancer non-regression: when a round of _balance_workload has      *)
(* scanned all slots, the population variance of the ledger is not above   *)
(* the variance before the round (a round that changed nothing leaves it   *)
(* equal).                                                                 *)
(***************************************************************************)
BalancerNonRegression ==
    pc = "endround"
        => VarianceNum(staff_work_hours) * (bal.count * bal.count)
               <= bal.variance_before
                      * (Len(staff_work_hours.keys) * Len(staff_work_hours.keys))

(***************************************************************************)
(* C4  Hour crediting: every amount added to a staff member's ledger entry *)
(* for a (date, shift) placement is min(overlapHours, cap of the shift),   *)
(* overlapHours being the oracle's value for that staff, date and shift.   *)
(***************************************************************************)
HourCrediting ==
    \A c \in last_credits :
        c.amount = Min(get_staff_availability(c.staff, c.date, c.shift)[2],
                       IF c.shift = "morning" THEN MorningCap ELSE AfternoonCap)

(***************************************************************************)
(* C5  Determinism: the finished run has the schedule and the ledger of    *)
(* the run in which the candidate sets are iterated in roster order, that  *)
(* is, all runs on one input end alike whatever the iteration orders.      *)
(***************************************************************************)
Determinism ==
    pc = "done"
        => /\ schedule = RosterOrderRun.schedule
           /\ staff_work_hours.hrs = RosterOrderRun.ledger.hrs
           /\ Range(staff_work_hours.keys) = Range(RosterOrderRun.ledger.keys)

(***************************************************************************)
(* C6  Availability precedence: an excluded date gives (false, 0); else a  *)
(* date-range override covering the date supplies the weekday table; else  *)
(* (no override covers the date) the default weekly table is used; a table *)
(* without an entry for the weekday gives (false, 0).                      *)
(***************************************************************************)
CoveringPeriods(staff_info, date) ==
    IF staff_info.has_periods
    THEN {i \in 1..Len(staff_info.periods) :
             staff_info.periods[i].start_date <= date
                 /\ date <= staff_info.periods[i].end_date}
    ELSE {}

TableLookup(table, date, shift_type) ==
    IF (Weekday(date) + 2) \in DOMAIN table
    THEN check_shift_overlap(table[Weekday(date) + 2], shift_type)
    ELSE <<FALSE, 0>>

AvailabilityPrecedence ==
    oa.op = "availability" =>
        LET info == oq.staff_info
            result == <<oa.can_work, oa.hours>>
        IN IF info.has_excluded /\ oq.date \in info.excluded_dates
           THEN result = <<FALSE, 0>>
           ELSE IF CoveringPeriods(info, oq.date) # {}
           THEN \E i \in CoveringPeriods(info, oq.date) :
                    result = TableLookup(info.periods[i].schedule, oq.date, oq.shift_type)
           ELSE result = TableLookup(IF info.has_default THEN info.default ELSE <<>>,
                                     oq.date, oq.shift_type)

(***************************************************************************)
(* C7  Oracle overlap: overlapHours is the sum over the declared windows   *)
(* of max(0, min(end, shiftEnd) - max(start, shiftStart)); it is never     *)
(* negative and never more than the sum of the window lengths; canWork is  *)
(* true exactly when overlapHours > 0.                                     *)
(***************************************************************************)
ClippedLength(window, shift_type) ==
    LET shift_start == IF shift_type = "morning" THEN MorningStart
                       ELSE IF shift_type = "afternoon1" THEN Afternoon1Start
                       ELSE Afternoon2Start
        shift_end == IF shift_type = "morning" THEN MorningEnd
                     ELSE IF shift_type = "afternoon1" THEN Afternoon1End
                     ELSE Afternoon2End
    IN Max(0, Min(window[2], shift_end) - Max(window[1], shift_start))

RECURSIVE SumClipped(_, _)
SumClipped(time_ranges, shift_type) ==
    IF time_ranges = <<>> THEN 0
    ELSE ClippedLength(Head(time_ranges), shift_type) + SumClipped(Tail(time_ranges), shift_type)

RECURSIVE SumLengths(_)
SumLengths(time_ranges) ==
    IF time_ranges = <<>> THEN 0
    ELSE (Head(time_ranges)[2] - Head(time_ranges)[1]) + SumLengths(Tail(time_ranges))

OracleOverlap ==
    oa.op = "overlap" =>
        /\ oa.hours = SumClipped(oq.time_ranges, oq.shift_type)
        /\ oa.hours >= 0
        /\ oa.hours <= SumLengths(oq.time_ranges)
        /\ oa.can_work <=> (oa.hours > 0)

\* two windows, one that meets the shift and reaches beyond it, one that misses it
WitnessOracleOverlap ==
    /\ oa.op = "overlap"
    /\ Len(oq.time_ranges) = 2
    /\ oa.can_work
    /\ oa.hours < SumLengths(oq.time_ranges)
    /\ \E i \in 1..2 : ClippedLength(oq.time_ranges[i], oq.shift_type) = 0
                          /\ oq.time_ranges[i][1] < oq.time_ranges[i][2]

(***************************************************************************)
(* C8  Scenario: A declares Morning and Afternoon1, B declares Morning     *)
(* only, nobody else declares anything; a one-day run on a Monday puts A   *)
(* and B into Morning labs, A into Afternoon1 in A's Morning lab, B        *)
(* nowhere in Afternoon1, and leaves Afternoon2 empty.                     *)
(***************************************************************************)
ScenarioInput ==
    /\ start_date = end_date
    /\ Weekday(start_date) = 0
    /\ staff_data["A"] = DefaultOnly(WeeklyTable(<<WinMorning, WinAfternoon1>>))
    /\ staff_data["B"] = DefaultOnly(WeeklyTable(<<WinMorning>>))
    /\ \A staff \in Staff \ {"A", "B"} : staff_data[staff] = DefaultOnly(<<>>)

Scenario ==
    (ScenarioInput /\ pc = "done") =>
        /\ Len(schedule) = 1
        /\ \E lab_a, lab_b \in LabSet :
               /\ lab_a # lab_b
               /\ Occupant(1, "morning", lab_a) = "A"
               /\ Occupant(1, "morning", lab_b) = "B"
               /\ Occupant(1, "afternoon1", lab_a) = "A"
        /\ \A lab \in LabSet : Occupant(1, "afternoon1", lab) # "B"
        /\ \A lab \in LabSet : Occupant(1, "afternoon2", lab) = NoStaff

WitnessScenario ==
    /\ ScenarioInput
    /\ pc = "done"
    /\ Len(schedule) = 1
    /\ staff_work_hours.hrs["A"] = MorningCap + AfternoonCap
    /\ staff_work_hours.hrs["B"] = MorningCap

(***************************************************************************)
(* C9  A staff member without any declared window never occupies a slot    *)
(* and never has a ledger entry, during the daily assignment and during    *)
(* balancing.                                                              *)
(***************************************************************************)
DeclaresNothing(staff_info) ==
    /\ staff_info.has_default => \A weekday \in DOMAIN staff_info.default :
                                     staff_info.default[weekday] = <<>>
    /\ staff_info.has_periods =>
           \A i \in 1..Len(staff_info.periods) :
               \A weekday \in DOMAIN staff_info.periods[i].schedule :
                   staff_info.periods[i].schedule[weekday] = <<>>

NoWindowsNoWork ==
    \A staff \in Staff :
        DeclaresNothing(staff_data[staff]) =>
            /\ \A slot \in DaySlots : Occupant(slot[1], slot[2], slot[3]) # staff
            /\ staff \notin Range(staff_work_hours.keys)
            /\ staff \notin Range(bal.work_hours.keys)
            /\ staff_work_hours.hrs[staff] = 0

\* a finished run in which a staff member declares nothing while a Morning
\* lab stays empty beside an occupied one
WitnessNoWindowsNoWork ==
    /\ pc = "done"
    /\ Len(schedule) = 1
    /\ Len(staff_work_hours.keys) >= 2
    /\ \E staff \in Staff : DeclaresNothing(staff_data[staff])
    /\ \E lab1, lab2 \in LabSet :
           Occupant(1, "morning", lab1) = NoStaff /\ Occupant(1, "morning", lab2) # NoStaff

(***************************************************************************)
(* C10  Bounded balancing: at most max_iterations (5) rounds are started;  *)
(* the balancer stops at the round in which no staff member is overloaded  *)
(* or none is underloaded, and at the round whose variance decrease is     *)
(* below 0.5 h^2.                                                          *)
(***************************************************************************)
LoadPairExists ==
    LET n == Len(staff_work_hours.keys)
        total == SumHours(staff_work_hours, 1)
    IN /\ \E staff \in Range(staff_work_hours.keys) :
              staff_work_hours.hrs[staff] * n > total + overloaded_threshold * n
       /\ \E staff \in Range(staff_work_hours.keys) :
              staff_work_hours.hrs[staff] * n < total - underloaded_threshold * n

\* 2 * (variance_before - variance_after) < 1 in h^2, i.e. (1 h^2 = 4 units)
\* variance_before - variance_after < 2 in squared half-hours
VarianceDecreaseBelowHalf ==
    LET n == Len(staff_work_hours.keys) * Len(staff_work_hours.keys)
        m == bal.count * bal.count
    IN (bal.variance_before * n - VarianceNum(staff_work_hours) * m) < 2 * m * n

IdempotentAtConvergence ==
    (pc = "done" /\ ~LoadPairExists) =>
        RunBalance(schedule, staff_work_hours, 0)
            = [schedule |-> schedule, ledger |-> staff_work_hours]

\* the balancer made swaps in an earlier round and then found no pair
WitnessIdempotentAtConvergence ==
    /\ pc = "done"
    /\ iteration >= 1
    /\ bal = NoBal
    /\ ~LoadPairExists
    /\ \E staff \in Range(staff_work_hours.keys) : staff_work_hours.hrs[staff] > 0

(***************************************************************************)
(* C12  Weekday coverage: once the initial schedule is built, its entries  *)
(* are exactly the Monday-to-Friday dates of [start_date, end_date], one   *)
(* entry per date, none for a Saturday or Sunday, in ascending date order. *)
(***************************************************************************)
WeekdayCoverage ==
    pc \in {"balance", "scan", "endround", "done"} =>
        /\ {schedule[i].date : i \in 1..Len(schedule)}
               = {date \in start_date..end_date : date % 7 \in {0, 1, 2, 3, 4}}
        /\ \A i, j \in 1..Len(schedule) : i < j => schedule[i].date < schedule[j].date

\* a finished run over a range that holds weekdays before and after a weekend
WitnessWeekdayCoverage ==
    /\ pc = "done"
    /\ start_date % 7 \in {3, 4}
    /\ end_date % 7 \in {0, 1}
    /\ end_date - start_date >= 3
    /\ Len(schedule) >= 2

(***************************************************************************)
(* C13  Tier fills never overwrite: in _assign_daily_labs the loops after  *)
(* Priority 1 (morning+afternoon1, morning+afternoon2 and                  *)
(* afternoon1+afternoon2) leave every slot that was occupied before the    *)
(* loop with the same occupant.                                            *)
(***************************************************************************)
KeepsOccupants(before, after) ==
    \A shift_type \in ShiftSet : \A lab \in LabSet :
        before.assignments[shift_type][lab] # NoStaff
            => after.assignments[shift_type][lab] = before.assignments[shift_type][lab]

TierFillsNeverOverwrite ==
    last_day # NoDay =>
        /\ KeepsOccupants(last_day.priority1, last_day.priority2)
        /\ KeepsOccupants(last_day.priority2, last_day.priority3)
        /\ KeepsOccupants(last_day.priority3, last_day.priority4)

(***************************************************************************)
(* C14  Replacement eligibility by load class: in a balancer round the     *)
(* occupant of a slot is replaced only if that occupant is overloaded      *)
(* (hours > avg + 2, the classification threshold) and only by a staff     *)
(* member who is underloaded (hours < avg - 2) when the step is taken.     *)
(* avg is the mean of the round; hours are read generously, from the       *)
(* ledger or from the round's copy of it.                                  *)
(***************************************************************************)
OverloadedNow(staff) ==
    \/ staff_work_hours.hrs[staff] * bal.count > bal.total + overloaded_threshold * bal.count
    \/ bal.work_hours.hrs[staff] * bal.count > bal.total + overloaded_threshold * bal.count

UnderloadedNow(staff) ==
    \/ staff_work_hours.hrs[staff] * bal.count < bal.total - underloaded_threshold * bal.count
    \/ bal.work_hours.hrs[staff] * bal.count < bal.total - underloaded_threshold * bal.count

ReplacementByLoadClass ==
    [][ pc = "scan" =>
          \A slot \in DaySlots :
              LET old_staff == Occupant(slot[1], slot[2], slot[3])
                  new_staff == schedule'[slot[1]].assignments[slot[2]][slot[3]]
              IN new_staff # old_staff =>
                     /\ old_staff # NoStaff /\ OverloadedNow(old_staff)
                     /\ new_staff # NoStaff /\ UnderloadedNow(new_staff) ]_vars

(***************************************************************************)
(* C15  Balancer mean: the mean that a round uses to classify staff        *)
(* (total / count of the round) is the mean over the staff whose ledger    *)
(* entry is not zero; entries that are zero do not count.                  *)
(***************************************************************************)
RoundJustBegun ==
    /\ pc = "scan"
    /\ bal.day = 1 /\ bal.shift = 1 /\ bal.lab = 1

NonzeroEntries == {staff \in Range(staff_work_hours.keys) : staff_work_hours.hrs[staff] # 0}

\* the hours of the nonzero entries among the first i staff of the roster, summed
NonzeroTotal(i) ==
    LET F[k \in 0..Len(StaffOrder)] ==
            IF k = 0 THEN 0
            ELSE F[k - 1] + (IF StaffOrder[k] \in NonzeroEntries
                             THEN staff_work_hours.hrs[StaffOrder[k]] ELSE 0)
    IN F[i]

BalancerMean ==
    RoundJustBegun =>
        bal.total * Cardinality(NonzeroEntries) = NonzeroTotal(Len(StaffOrder)) * bal.count

(***************************************************************************)
(* C16  Ledger reflects all transfers: in every step of the balancer each  *)
(* slot of shift S whose occupant changes from X to Y takes cap(S) from    *)
(* the ledger entry of X and adds cap(S) to that of Y, the ledger changes  *)
(* in no other way, and so the sum of the ledger entries stays the same.   *)
(***************************************************************************)
\* slot number k (1..9) of a day: shift and lab
SlotShift(k) == Shifts[((k - 1) \div 3) + 1]
SlotLab(k) == Labs[((k - 1) % 3) + 1]

\* what the occupant changes of this step in the slots 1..k of the days 1..day
\* give to staff (cap for a slot gained, minus cap for a slot lost)
RECURSIVE NetTransfer(_, _, _)
NetTransfer(staff, day, k) ==
    IF day = 0 THEN 0
    ELSE IF k = 0 THEN NetTransfer(staff, day - 1, 9)
    ELSE LET old_staff == schedule[day].assignments[SlotShift(k)][SlotLab(k)]
             new_staff == schedule'[day].assignments[SlotShift(k)][SlotLab(k)]
             cap == IF SlotShift(k) = "morning" THEN MorningCap ELSE AfternoonCap
         IN NetTransfer(staff, day, k - 1)
                + (IF old_staff # new_staff /\ new_staff = staff THEN cap ELSE 0)
                - (IF old_staff # new_staff /\ old_staff = staff THEN cap ELSE 0)

RECURSIVE LedgerSum(_, _)
LedgerSum(hrs, i) == IF i = 0 THEN 0 ELSE hrs[StaffOrder[i]] + LedgerSum(hrs, i - 1)

TransfersOnly ==
    /\ Len(schedule') = Len(schedule)
    /\ \A staff \in Staff :
           staff_work_hours'.hrs[staff]
               = staff_work_hours.hrs[staff] + NetTransfer(staff, Len(schedule), 9)
    /\ staff_work_hours'.keys = staff_work_hours.keys
    /\ LedgerSum(staff_work_hours'.hrs, Len(StaffOrder))
           = LedgerSum(staff_work_hours.hrs, Len(StaffOrder))

LedgerReflectsTransfers ==
    [][(pc = "balance" \/ pc = "scan" \/ pc = "endround") => TransfersOnly]_vars

\* a swap in the morning has just been followed by the migration of both
\* afternoon shifts of the lab
WitnessLedgerReflectsTransfers ==
    /\ pc \in {"scan", "endround"}
    /\ Cardinality(last_credits) = 3
    /\ \E c \in last_credits : c.shift = "morning"

(***************************************************************************)
(* C17  Balancer swap precondition: the staff member whom a swap of        *)
(* _reassign_shifts puts into the scanned slot can work that date and      *)
(* shift with overlapHours >= the cap of the shift, and has, when the swap *)
(* is made, the lowest ledger hours among the underloaded candidates that  *)
(* meet this availability condition and pass the conflict guard for the    *)
(* slot.                                                                   *)
(***************************************************************************)
ScannedShift == Shifts[bal.shift]
ScannedLab == Labs[bal.lab]

EligibleCandidates ==
    {staff \in {bal.underloaded_staff[i][1] : i \in 1..Len(bal.underloaded_staff)} :
        /\ get_staff_availability(staff, schedule[bal.day].date, ScannedShift)[1]
        /\ get_staff_availability(staff, schedule[bal.day].date, ScannedShift)[2]
               >= (IF ScannedShift = "morning" THEN MorningCap ELSE AfternoonCap)
        /\ ~would_create_conflict(schedule[bal.day].assignments, staff,
                                  ScannedShift, ScannedLab)}

SwapTakesLowest ==
    LET old_staff == schedule[bal.day].assignments[ScannedShift][ScannedLab]
        new_staff == schedule'[bal.day].assignments[ScannedShift][ScannedLab]
    IN new_staff # old_staff =>
           /\ new_staff \in EligibleCandidates
           /\ \A staff \in EligibleCandidates :
                  staff_work_hours.hrs[new_staff] <= staff_work_hours.hrs[staff]

SwapPrecondition == [][(pc = "scan") => SwapTakesLowest]_vars

(***************************************************************************)
(* C18  Continuity preference of the guard: when the balancer puts staff Y *)
(* into lab L of shift S while Y holds labs in other shifts of that day    *)
(* and L is not one of them, every lab that Y holds in those other shifts  *)
(* is occupied in S at that moment.  (A migration writes into the lab of   *)
(* the swap, which Y holds by then, so only the swap can be such a step.)  *)
(***************************************************************************)
LabsInOtherShifts(assignments, staff, shift_type) ==
    {lab \in LabSet : \E other \in ShiftSet :
        other # shift_type /\ assignments[other][lab] = staff}

OwnLabsTaken ==
    LET before == schedule[bal.day].assignments
        after == schedule'[bal.day].assignments
        new_staff == after[ScannedShift][ScannedLab]
        own_labs == LabsInOtherShifts(before, new_staff, ScannedShift)
    IN /\ (new_staff # before[ScannedShift][ScannedLab]
               /\ own_labs # {} /\ ScannedLab \notin own_labs)
              => \A lab \in own_labs : before[ScannedShift][lab] # NoStaff
       /\ \A shift_type \in ShiftSet : \A lab \in LabSet :
              after[shift_type][lab] # before[shift_type][lab]
                  => lab = ScannedLab /\ after[shift_type][lab] = new_staff

ContinuityPreference == [][(pc = "scan") => OwnLabsTaken]_vars

\* a swap has just put a staff member into a lab other than the lab that this
\* staff member holds in another shift of the day, in a shift that has an
\* empty lab
WitnessContinuityPreference ==
    /\ pc \in {"scan", "endround"}
    /\ \E c \in last_credits : \E day \in 1..Len(schedule) : \E lab \in LabSet :
           /\ schedule[day].date = c.date
           /\ schedule[day].assignments[c.shift][lab] = c.staff
           /\ \E empty \in LabSet : schedule[day].assignments[c.shift][empty] = NoStaff
           /\ LabsInOtherShifts(schedule[day].assignments, c.staff, c.shift) # {}
           /\ lab \notin LabsInOtherShifts(schedule[day].assignments, c.staff, c.shift)

(***************************************************************************)
(* C19  Lowest-hours-first fill: in each pass of _fill_remaining_slots the *)
(* empty slots of the shift go to the staff who are available for the      *)
(* shift and not yet assigned that day, as many as there are slots (or     *)
(* candidates), and nobody placed has more ledger hours at the start of    *)
(* the pass than a candidate who is left out.                              *)
(***************************************************************************)
FillCandidates(before, shift_type) ==
    {staff \in Staff : /\ get_staff_availability(staff, last_day.date, shift_type)[1]
                       /\ staff \notin before.assigned_staff}

EmptyLabs(before, shift_type) ==
    {lab \in LabSet : before.assignments[shift_type][lab] = NoStaff}

PlacedByFill(before, after, shift_type) ==
    {after.assignments[shift_type][lab] : lab \in EmptyLabs(before, shift_type)} \ {NoStaff}

FillTakesLowest(before, after, shift_type) ==
    /\ PlacedByFill(before, after, shift_type) \subseteq FillCandidates(before, shift_type)
    /\ Cardinality(PlacedByFill(before, after, shift_type))
           = Min(Cardinality(EmptyLabs(before, shift_type)),
                 Cardinality(FillCandidates(before, shift_type)))
    /\ \A placed \in PlacedByFill(before, after, shift_type) :
           \A left_out \in FillCandidates(before, shift_type)
                               \ PlacedByFill(before, after, shift_type) :
               before.ledger.hrs[placed] <= before.ledger.hrs[left_out]

LowestHoursFirstFill ==
    last_day # NoDay =>
        /\ FillTakesLowest(last_day.priority4, last_day.fill_morning, "morning")
        /\ FillTakesLowest(last_day.fill_morning, last_day.fill_afternoon1, "afternoon1")
        /\ FillTakesLowest(last_day.fill_afternoon1, last_day.final, "afternoon2")

\* a morning fill has placed staff who already had hours and left out a
\* candidate with more hours
WitnessLowestHoursFirstFill ==
    /\ last_day # NoDay
    /\ \E placed \in PlacedByFill(last_day.priority4, last_day.fill_morning, "morning") :
           /\ last_day.priority4.ledger.hrs[placed] > 0
           /\ \E left_out \in FillCandidates(last_day.priority4, "morning")
                   \ PlacedByFill(last_day.priority4, last_day.fill_morning, "morning") :
                  last_day.priority4.ledger.hrs[left_out]
                      > last_day.priority4.ledger.hrs[placed]

(***************************************************************************)
(* C20  Tier 1 continuity: when _assign_daily_labs returns, at most three  *)
(* staff were placed by Priority 1, each of them is available for all      *)
(* three shifts and holds one and the same lab in Morning, Afternoon1 and  *)
(* Afternoon2; and with n staff available for all three shifts, at least   *)
(* min(3, n) labs are held all day by one of them.                         *)
(***************************************************************************)
Tier1Staff == last_day.priority1.assigned_staff \ last_day.start.assigned_staff

HoldsAllDay(assignments, staff, lab) ==
    \A shift_type \in ShiftSet : assignments[shift_type][lab] = staff

LabsHeldAllDay ==
    {lab \in LabSet : \E staff \in all_day_staff(last_day.date) :
        HoldsAllDay(last_day.final.assignments, staff, lab)}

Tier1Continuity ==
    last_day # NoDay =>
        /\ Cardinality(Tier1Staff) <= 3
        /\ \A staff \in Tier1Staff :
               /\ \A shift_type \in ShiftSet :
                      get_staff_availability(staff, last_day.date, shift_type)[1]
               /\ \E lab \in LabSet : HoldsAllDay(last_day.final.assignments, staff, lab)
        /\ Cardinality(LabsHeldAllDay)
               >= Min(3, Cardinality(all_day_staff(last_day.date)))

\* a day on which Priority 1 has placed somebody and Priority 4 and the
\* fill have placed others after it
WitnessTier1Continuity ==
    /\ last_day # NoDay
    /\ Tier1Staff # {}
    /\ last_day.priority4.assigned_staff # last_day.priority3.assigned_staff
    /\ last_day.final.assigned_staff # last_day.priority4.assigned_staff

(***************************************************************************)
(* C21  Ledger matches schedule after daily assignment: when the loop of   *)
(* _generate_initial_schedule has finished and the balancer has not yet    *)
(* run, the ledger total of each staff member equals the sum of            *)
(* min(overlap hours, shift cap) over the slots this staff member holds    *)
(* in the schedule.                                                        *)
(***************************************************************************)
RECURSIVE HeldHours(_, _, _)
HeldHours(staff, day, k) ==
    IF day = 0 THEN 0
    ELSE IF k = 0 THEN HeldHours(staff, day - 1, 9)
    ELSE HeldHours(staff, day, k - 1)
            + (IF schedule[day].assignments[SlotShift(k)][SlotLab(k)] = staff
               THEN Min(get_staff_availability(staff, schedule[day].date, SlotShift(k))[2],
                        ShiftCap(SlotShift(k)))
               ELSE 0)

InitialScheduleFinished == pc = "generate" /\ current_date > end_date

LedgerMatchesSchedule ==
    InitialScheduleFinished =>
        \A staff \in Staff :
            staff_work_hours.hrs[staff] = HeldHours(staff, Len(schedule), 9)

(***************************************************************************)
(* C22  Ledger non-negativity: in every state of generate_schedule, also   *)
(* after each balancer swap and each continuity migration, every ledger    *)
(* entry is >= 0, whatever the declared windows (windows that cover only   *)
(* part of a shift included).                                              *)
(***************************************************************************)
LedgerNonNegative == \A staff \in Staff : staff_work_hours.hrs[staff] >= 0

(***************************************************************************)
(* C23  Balancer preserves slot occupancy shape: no step of                *)
(* _balance_workload (swap or continuity migration) empties an occupied    *)
(* slot or fills an empty one; for every date, shift and lab the slot is   *)
(* occupied after the step iff it was occupied before, and the dates of    *)
(* the schedule stay as they are.                                          *)
(***************************************************************************)
OccupancyShapeKept ==
    /\ Len(schedule') = Len(schedule)
    /\ \A day \in 1..Len(schedule) :
           /\ schedule'[day].date = schedule[day].date
           /\ \A shift_type \in ShiftSet : \A lab \in LabSet :
                  (schedule'[day].assignments[shift_type][lab] = NoStaff)
                      <=> (schedule[day].assignments[shift_type][lab] = NoStaff)

BalancerPreservesShape ==
    [][(pc = "balance" \/ pc = "scan" \/ pc = "endround") => OccupancyShapeKept]_vars

\* a swap has just put a staff member into a lab that has an empty slot in
\* another shift, which this staff member could work
WitnessBalancerPreservesShape ==
    /\ pc \in {"scan", "endround"}
    /\ \E c \in last_credits : \E day \in 1..Len(schedule) : \E lab \in LabSet :
           /\ schedule[day].date = c.date
           /\ schedule[day].assignments[c.shift][lab] = c.staff
           /\ \E other \in ShiftSet :
                  /\ schedule[day].assignments[other][lab] = NoStaff
                  /\ get_staff_availability(c.staff, c.date, other)[1]

(***************************************************************************)
(* C24  One lab per staff per day after daily assignment: when             *)
(* _assign_daily_labs returns, every staff member who holds slots on that  *)
(* day holds the same lab in every shift in which they appear.             *)
(***************************************************************************)
LabsOf(assignments, staff) ==
    {lab \in LabSet : \E shift_type \in ShiftSet : assignments[shift_type][lab] = staff}

OneLabPerStaffPerDay ==
    last_day # NoDay =>
        \A staff \in Staff : Cardinality(LabsOf(last_day.final.assignments, staff)) <= 1

\* a day on which a lab is shared by two staff members and the fill has
\* placed a staff member who could work more than one shift
WitnessOneLabPerStaffPerDay ==
    /\ last_day # NoDay
    /\ \E lab \in LabSet : \E first \in Staff : \E second \in Staff \ {first} :
           lab \in LabsOf(last_day.final.assignments, first)
               \cap LabsOf(last_day.final.assignments, second)
    /\ \E staff \in last_day.final.assigned_staff \ last_day.priority4.assigned_staff :
           Cardinality({shift_type \in ShiftSet :
               get_staff_availability(staff, last_day.date, shift_type)[1]}) >= 2

====
